---------------------------- MODULE Spec2Model ----------------------------
(***************************************************************************)
(* A model of pystockfish.py: the Engine class (a UCI session over the     *)
(* pipes of a stockfish process) and the Match class (two sessions playing *)
(* against each other).                                                    *)
(*                                                                         *)
(* A Python string is a sequence of one-character strings, so that find,   *)
(* split, strip, indexing and int() are computed as the code computes      *)
(* them.  The interpreter is one thread of control (pc); each engine       *)
(* process is a separate process that takes command lines from its stdin   *)
(* pipe (inq) and puts answer lines on its stdout pipe (out).              *)
(***************************************************************************)
EXTENDS Integers, Sequences, FiniteSets, TLC

(***************************************************************************)
(* String literals of the source, and the lines a stockfish process emits. *)
(***************************************************************************)
\* 'uci'
s_uci == <<"u","c","i">>
\* 'isready'
s_isready == <<"i","s","r","e","a","d","y">>
\* 'readyok'
s_readyok == <<"r","e","a","d","y","o","k">>
\* 'ucinewgame'
s_ucinewgame == <<"u","c","i","n","e","w","g","a","m","e">>
\* 'setoption name '
s_setoption_name == <<"s","e","t","o","p","t","i","o","n"," ","n","a","m","e"," ">>
\* ' value '
s_value == <<" ","v","a","l","u","e"," ">>
\* 'position startpos moves '
s_position_startpos_moves == <<"p","o","s","i","t","i","o","n"," ","s","t","a","r","t","p","o","s"," ","m","o","v","e","s"," ">>
\* 'position fen '
s_position_fen == <<"p","o","s","i","t","i","o","n"," ","f","e","n"," ">>
\* 'go depth '
s_go_depth == <<"g","o"," ","d","e","p","t","h"," ">>
\* 'go movetime '
s_go_movetime == <<"g","o"," ","m","o","v","e","t","i","m","e"," ">>
\* 'bestmove'
s_bestmove == <<"b","e","s","t","m","o","v","e">>
\* '(none)'
s_none == <<"(","n","o","n","e",")">>
\* 'score'
s_score == <<"s","c","o","r","e">>
\* 'mate'
s_mate == <<"m","a","t","e">>
\* 'No such'
s_No_such == <<"N","o"," ","s","u","c","h">>
\* 'False'
s_False == <<"F","a","l","s","e">>
\* 'True'
s_True == <<"T","r","u","e">>
\* 'false'
s_false == <<"f","a","l","s","e">>
\* 'Ponder'
o_Ponder == <<"P","o","n","d","e","r">>
\* 'Write Debug Log'
o_Write_Debug_Log == <<"W","r","i","t","e"," ","D","e","b","u","g"," ","L","o","g">>
\* 'Contempt Factor'
o_Contempt_Factor == <<"C","o","n","t","e","m","p","t"," ","F","a","c","t","o","r">>
\* 'Contempt'
o_Contempt == <<"C","o","n","t","e","m","p","t">>
\* 'Min Split Depth'
o_Min_Split_Depth == <<"M","i","n"," ","S","p","l","i","t"," ","D","e","p","t","h">>
\* 'Threads'
o_Threads == <<"T","h","r","e","a","d","s">>
\* 'Hash'
o_Hash == <<"H","a","s","h">>
\* 'MultiPV'
o_MultiPV == <<"M","u","l","t","i","P","V">>
\* 'Skill Level'
o_Skill_Level == <<"S","k","i","l","l"," ","L","e","v","e","l">>
\* 'Move Overhead'
o_Move_Overhead == <<"M","o","v","e"," ","O","v","e","r","h","e","a","d">>
\* 'Minimum Thinking Time'
o_Minimum_Thinking_Time == <<"M","i","n","i","m","u","m"," ","T","h","i","n","k","i","n","g"," ","T","i","m","e">>
\* 'Slow Mover'
o_Slow_Mover == <<"S","l","o","w"," ","M","o","v","e","r">>
\* 'UCI_Chess960'
o_UCI_Chess960 == <<"U","C","I","_","C","h","e","s","s","9","6","0">>
\* 'e2e4'
m_e2e4 == <<"e","2","e","4">>
\* 'e7e5'
m_e7e5 == <<"e","7","e","5">>
\* 'g1f3'
m_g1f3 == <<"g","1","f","3">>
\* 'b8c6'
m_b8c6 == <<"b","8","c","6">>
\* 'id name Stockfish'
l_id_name == <<"i","d"," ","n","a","m","e"," ","S","t","o","c","k","f","i","s","h">>
\* 'uciok'
l_uciok == <<"u","c","i","o","k">>
\* 'No such option: '
l_No_such_option == <<"N","o"," ","s","u","c","h"," ","o","p","t","i","o","n",":"," ">>
\* 'info string late'
l_info_string == <<"i","n","f","o"," ","s","t","r","i","n","g"," ","l","a","t","e">>
\* '12 -12 3'
l_eval == <<"1","2"," ","-","1","2"," ","3">>
\* 'info currmove e2e4 currmovenumber 1'
l_currmove == <<"i","n","f","o"," ","c","u","r","r","m","o","v","e"," ","e","2","e","4"," ","c","u","r","r","m","o","v","e","n","u","m","b","e","r"," ","1">>
\* 'info depth 5 seldepth 5 multipv 1 score cp 34 nodes 1000 time 12 pv e2e4 e7e5'
l_info_cp34 == <<"i","n","f","o"," ","d","e","p","t","h"," ","5"," ","s","e","l","d","e","p","t","h"," ","5"," ","m","u","l","t","i","p","v"," ","1"," ","s","c","o","r","e"," ","c","p"," ","3","4"," ","n","o","d","e","s"," ","1","0","0","0"," ","t","i","m","e"," ","1","2"," ","p","v"," ","e","2","e","4"," ","e","7","e","5">>
\* 'info depth 5 seldepth 5 multipv 1 score cp 0 nodes 1000 time 12'
l_info_cp0 == <<"i","n","f","o"," ","d","e","p","t","h"," ","5"," ","s","e","l","d","e","p","t","h"," ","5"," ","m","u","l","t","i","p","v"," ","1"," ","s","c","o","r","e"," ","c","p"," ","0"," ","n","o","d","e","s"," ","1","0","0","0"," ","t","i","m","e"," ","1","2">>
\* 'info depth 5 seldepth 2 multipv 1 score mate 1 nodes 1000 nps 83000 time 12 pv g1f3'
l_info_mate1 == <<"i","n","f","o"," ","d","e","p","t","h"," ","5"," ","s","e","l","d","e","p","t","h"," ","2"," ","m","u","l","t","i","p","v"," ","1"," ","s","c","o","r","e"," ","m","a","t","e"," ","1"," ","n","o","d","e","s"," ","1","0","0","0"," ","n","p","s"," ","8","3","0","0","0"," ","t","i","m","e"," ","1","2"," ","p","v"," ","g","1","f","3">>
\* 'info depth 24 seldepth 30 multipv 1 score mate 12 nodes 1000 nps 83000 time 12 pv g1f3 b8c6'
l_info_mate12 == <<"i","n","f","o"," ","d","e","p","t","h"," ","2","4"," ","s","e","l","d","e","p","t","h"," ","3","0"," ","m","u","l","t","i","p","v"," ","1"," ","s","c","o","r","e"," ","m","a","t","e"," ","1","2"," ","n","o","d","e","s"," ","1","0","0","0"," ","n","p","s"," ","8","3","0","0","0"," ","t","i","m","e"," ","1","2"," ","p","v"," ","g","1","f","3"," ","b","8","c","6">>
\* 'info depth 0 score mate 0'
l_info_mate0 == <<"i","n","f","o"," ","d","e","p","t","h"," ","0"," ","s","c","o","r","e"," ","m","a","t","e"," ","0">>
\* 'info depth 5 seldepth 6 multipv 1 score mate -3 nodes 1000 nps 83000 time 12 pv g1f3'
l_info_mate_neg3 == <<"i","n","f","o"," ","d","e","p","t","h"," ","5"," ","s","e","l","d","e","p","t","h"," ","6"," ","m","u","l","t","i","p","v"," ","1"," ","s","c","o","r","e"," ","m","a","t","e"," ","-","3"," ","n","o","d","e","s"," ","1","0","0","0"," ","n","p","s"," ","8","3","0","0","0"," ","t","i","m","e"," ","1","2"," ","p","v"," ","g","1","f","3">>
\* 'rnbqkbnr/pppppppp/8/8/8/8/PPPPPPPP/RNBQKBNR w KQkq - 0 1'
f_startfen == <<"r","n","b","q","k","b","n","r","/","p","p","p","p","p","p","p","p","/","8","/","8","/","8","/","8","/","P","P","P","P","P","P","P","P","/","R","N","B","Q","K","B","N","R"," ","w"," ","K","Q","k","q"," ","-"," ","0"," ","1">>
\* 'info depth '
s_info_depth == <<"i","n","f","o"," ","d","e","p","t","h"," ">>
\* ' seldepth '
s_seldepth == <<" ","s","e","l","d","e","p","t","h"," ">>
\* ' multipv '
s_multipv == <<" ","m","u","l","t","i","p","v"," ">>
\* ' score '
s_score_ == <<" ","s","c","o","r","e"," ">>
\* 'cp'
s_cp == <<"c","p">>
\* ' nodes '
s_nodes == <<" ","n","o","d","e","s"," ">>
\* ' time '
s_time == <<" ","t","i","m","e"," ">>
\* ' pv '
s_pv == <<" ","p","v"," ">>
\* 'nps 83000'
l_nps == <<"n","p","s"," ","8","3","0","0","0">>
\* 'info depth 5 score cp 3'
l_info_short == <<"i","n","f","o"," ","d","e","p","t","h"," ","5"," ","s","c","o","r","e"," ","c","p"," ","3">>
\* 'bestmove '
s_bestmove_ == <<"b","e","s","t","m","o","v","e"," ">>
\* ' ponder '
s_ponder_ == <<" ","p","o","n","d","e","r"," ">>

(***************************************************************************)
(* Python string operations.                                               *)
(***************************************************************************)
\* Python's None, for a value that is otherwise a string
None == <<"None">>

\* s[i] with Python's 0-based index; <<"IndexError">> when out of range
CharAt(s, i) == IF i >= 0 /\ i < Len(s) THEN <<s[i + 1]>> ELSE <<"IndexError">>

RECURSIVE LStrip(_)
LStrip(s) == IF s # <<>> /\ Head(s) = " " THEN LStrip(Tail(s)) ELSE s

RECURSIVE RStrip(_)
RStrip(s) == IF s # <<>> /\ s[Len(s)] = " " THEN RStrip(SubSeq(s, 1, Len(s) - 1)) ELSE s

\* str.strip()
Strip(s) == RStrip(LStrip(s))

\* str.find(sub): the lowest 0-based index where sub occurs, or -1
Find(s, sub) ==
    LET hits == {i \in 1..(Len(s) - Len(sub) + 1) : SubSeq(s, i, i + Len(sub) - 1) = sub}
    IN  IF hits = {} THEN -1 ELSE (CHOOSE i \in hits : \A j \in hits : i <= j) - 1

\* sub in s
Contains(s, sub) == Find(s, sub) >= 0

\* str.split(' ') of s[i..j]: cut at every single space (the cut point chosen
\* near the middle keeps the recursion shallow; any space gives the same list)
RECURSIVE SplitRange(_, _, _)
SplitRange(s, i, j) ==
    LET mid == (i + j) \div 2
        hi  == {k \in mid..j : s[k] = " "}
        lo  == {k \in i..(mid - 1) : s[k] = " "}
    IN  IF i > j THEN << <<>> >>
        ELSE IF hi = {} /\ lo = {} THEN <<SubSeq(s, i, j)>>
        ELSE LET k == IF hi # {} THEN CHOOSE x \in hi : TRUE ELSE CHOOSE x \in lo : TRUE
             IN  SplitRange(s, i, k - 1) \o SplitRange(s, k + 1, j)

Split(s) == SplitRange(s, 1, Len(s))

\* str.split(): cut at runs of whitespace, no empty strings
SplitWs(s) == SelectSeq(Split(s), LAMBDA w : w # <<>>)

Digits == <<"0", "1", "2", "3", "4", "5", "6", "7", "8", "9">>

IsDigit(c) == \E d \in 1..10 : Digits[d] = c

DigitVal(c) == (CHOOSE d \in 1..10 : Digits[d] = c) - 1

RECURSIVE NatOf(_)
NatOf(s) == IF s = <<>> THEN 0 ELSE 10 * NatOf(SubSeq(s, 1, Len(s) - 1)) + DigitVal(s[Len(s)])

\* int(s) succeeds: an optional sign and at least one digit
IsInt(s) ==
    LET body == IF s # <<>> /\ Head(s) \in {"-", "+"} THEN Tail(s) ELSE s
    IN  body # <<>> /\ \A i \in 1..Len(body) : IsDigit(body[i])

\* int(s) for a string that IsInt
IntOf(s) == IF Head(s) = "-" THEN 0 - NatOf(Tail(s))
            ELSE IF Head(s) = "+" THEN NatOf(Tail(s)) ELSE NatOf(s)

RECURSIVE NatStr(_)
NatStr(n) == IF n < 10 THEN <<Digits[n + 1]>> ELSE NatStr(n \div 10) \o <<Digits[(n % 10) + 1]>>

\* '%i' % n and str(n) of an integer
IntStr(n) == IF n < 0 THEN <<"-">> \o NatStr(0 - n) ELSE NatStr(n)

(***************************************************************************)
(* Values of the option table: an int, a str or a bool, and str(value).    *)
(***************************************************************************)
IntV(n) == [t |-> "int", v |-> n]

StrV(s) == [t |-> "str", v |-> s]

BoolV(b) == [t |-> "bool", v |-> b]

\* a tuple of one integer
TupleV(n) == [t |-> "tuple", v |-> n]

\* what a method returns: None, a str, bestmove's dict or setfen's list
NoneV == [t |-> "None"]

ListV(l) == [t |-> "list", v |-> l]

\* str(value)
Str(x) == IF x.t = "int" THEN IntStr(x.v)
          ELSE IF x.t = "bool" THEN (IF x.v THEN s_True ELSE s_False)
          ELSE IF x.t = "tuple" THEN <<"(">> \o IntStr(x.v) \o <<",", ")">>
          ELSE x.v

\* an optional integer argument: <<>> is None, <<n>> is n; Python's truth value
Truthy(x) == x # <<>> /\ x[1] # 0

\* base_param of Engine.__init__, as (name, value) items
base_param == <<
    <<o_Write_Debug_Log, StrV(s_false)>>,
    <<o_Contempt_Factor, IntV(0)>>,
    <<o_Contempt, IntV(0)>>,
    <<o_Min_Split_Depth, IntV(0)>>,
    <<o_Threads, IntV(1)>>,
    <<o_Hash, IntV(16)>>,
    <<o_MultiPV, IntV(1)>>,
    <<o_Skill_Level, IntV(20)>>,
    <<o_Move_Overhead, IntV(30)>>,
    <<o_Minimum_Thinking_Time, IntV(20)>>,
    <<o_Slow_Mover, IntV(80)>>,
    <<o_UCI_Chess960, StrV(s_false)>> >>

Keys(d) == {d[i][1] : i \in 1..Len(d)}

\* dict.update(other): replace the value of a key already there, add a new key
RECURSIVE DictUpdate(_, _)
DictUpdate(d, other) ==
    IF other = <<>> THEN d
    ELSE LET k == other[1][1]
             v == other[1][2]
             d1 == IF k \in Keys(d)
                   THEN [i \in 1..Len(d) |-> IF d[i][1] = k THEN <<k, v>> ELSE d[i]]
                   ELSE Append(d, <<k, v>>)
         IN  DictUpdate(d1, Tail(other))

Reverse(s) == [i \in 1..Len(s) |-> s[Len(s) + 1 - i]]

\* dict.items(): the order of a Python 2 dict is not the insertion order;
\* the orders considered are the table's and its reverse
ItemOrders(d) == {d, Reverse(d)}

(***************************************************************************)
(* The command lines the client formats.                                   *)
(***************************************************************************)
\* 'setoption name %s value %s' % (optionname, str(value))
SetoptionCmd(optionname, value) == s_setoption_name \o optionname \o s_value \o Str(value)

\* the loop of _movelisttostr over moves[i..j]: each move followed by ' '
RECURSIVE MoveConcat(_, _, _)
MoveConcat(ms, i, j) ==
    IF i > j THEN <<>>
    ELSE IF i = j THEN ms[i] \o <<" ">>
    ELSE LET mid == (i + j) \div 2
         IN  MoveConcat(ms, i, mid) \o MoveConcat(ms, mid + 1, j)

_movelisttostr(ms) == Strip(MoveConcat(ms, 1, Len(ms)))

\* 'position startpos moves %s' % self._movelisttostr(moves)
PositionCmd(ms) == s_position_startpos_moves \o _movelisttostr(ms)

\* 'position fen %s' % fen
FenCmd(fen) == s_position_fen \o fen

\* Engine.go: the lines it writes, none when neither depth nor movetime is set
GoCmds(d, mt) ==
    IF Truthy(d) THEN <<s_go_depth \o IntStr(d[1])>>
    ELSE IF Truthy(mt) THEN <<s_go_movetime \o IntStr(mt[1])>>
    ELSE <<>>

(***************************************************************************)
(* Engine.score_cp_from_info: re.search('score (cp|mate) ([-0-9]+)', info) *)
(***************************************************************************)
ScoreChars == {"-", "0", "1", "2", "3", "4", "5", "6", "7", "8", "9"}

s_score_cp == s_score \o <<" ", "c", "p", " ">>

s_score_mate == s_score \o <<" ">> \o s_mate \o <<" ">>

\* the pattern matches at i with the given tag prefix
TagAt(info, i, pre) ==
    /\ i + Len(pre) <= Len(info)
    /\ SubSeq(info, i, i + Len(pre) - 1) = pre
    /\ info[i + Len(pre)] \in ScoreChars

\* the greedy group ([-0-9]+) that starts at position i
ScoreGroup(info, i) ==
    LET stop == {j \in i..Len(info) : info[j] \notin ScoreChars}
        last == IF stop = {} THEN Len(info)
                ELSE (CHOOSE j \in stop : \A k \in stop : j <= k) - 1
    IN  SubSeq(info, i, last)

\* MateEquity without the branch on the sign: a sensitivity test of C13
MateEquityOneBranch(mate_count) == 32768 - mate_count

\* lines 226-229, and the same lines 260-263 of parse_info
MateEquity(mate_count) ==
    IF mate_count > 0 THEN 32768 - mate_count ELSE mate_count - 32768

\* [t |-> "none"], [t |-> "int", v |-> score] or [t |-> "ValueError"]
score_cp_from_info(info) ==
    LET hits == {i \in 1..Len(info) : TagAt(info, i, s_score_cp) \/ TagAt(info, i, s_score_mate)}
    IN  IF hits = {} THEN [t |-> "none"]
        ELSE LET i == CHOOSE h \in hits : \A k \in hits : h <= k
                 isMate == ~TagAt(info, i, s_score_cp)
                 grp == ScoreGroup(info, i + (IF isMate THEN Len(s_score_mate) ELSE Len(s_score_cp)))
             IN  IF ~IsInt(grp) THEN [t |-> "ValueError"]
                 ELSE LET score == IntOf(grp)
                      IN  IF isMate
                          THEN IntV(MateEquity(score))
                          ELSE IntV(score)

(***************************************************************************)
(* Engine.parse_info: re.search of                                         *)
(* 'info depth ([0-9]+) seldepth ([0-9]+) multipv ([0-9]) score (cp|mate)  *)
(*  ([-0-9]+) nodes ([0-9]+) .* time ([0-9]+) pv ([a-z1-9]+)'              *)
(***************************************************************************)
DigitChars == {"0", "1", "2", "3", "4", "5", "6", "7", "8", "9"}

\* [a-z1-9]
PvChars == {"a", "b", "c", "d", "e", "f", "g", "h", "i", "j", "k", "l", "m", "n", "o", "p",
            "q", "r", "s", "t", "u", "v", "w", "x", "y", "z",
            "1", "2", "3", "4", "5", "6", "7", "8", "9"}

\* the literal lit stands at position i of s
LitAt(s, i, lit) == i + Len(lit) - 1 <= Len(s) /\ SubSeq(s, i, i + Len(lit) - 1) = lit

\* where the longest run of characters of class that starts at i ends
\* (below i when s[i] is not of the class)
RunEnd(s, i, class) ==
    LET stop == {j \in i..Len(s) : s[j] \notin class}
    IN  IF i > Len(s) THEN i - 1
        ELSE IF stop = {} THEN Len(s)
        ELSE (CHOOSE j \in stop : \A k \in stop : j <= k) - 1

\* ' time ([0-9]+) pv ([a-z1-9]+)' matches at position k
TimePvAt(s, k) ==
    LET p7 == k + Len(s_time)
        e7 == RunEnd(s, p7, DigitChars)
        p8 == e7 + 1 + Len(s_pv)
    IN  /\ LitAt(s, k, s_time)
        /\ e7 >= p7
        /\ LitAt(s, e7 + 1, s_pv)
        /\ p8 <= Len(s)
        /\ s[p8] \in PvChars

\* the groups of the match that starts at position i, as << groups >>, or
\* <<>> when the pattern does not match there.  Every group but the last is
\* followed by a space, so it is the whole run of its class; '.*' is greedy,
\* so the ' time ' taken is the last one that lets the rest match.
InfoMatchAt(s, i) ==
    LET p1 == i + Len(s_info_depth)
        e1 == RunEnd(s, p1, DigitChars)
        p2 == e1 + 1 + Len(s_seldepth)
        e2 == RunEnd(s, p2, DigitChars)
        p3 == e2 + 1 + Len(s_multipv)
        p4 == p3 + 1 + Len(s_score_)
        isCp == LitAt(s, p4, s_cp \o <<" ">>)
        isMate == LitAt(s, p4, s_mate \o <<" ">>)
        p5 == p4 + (IF isCp THEN Len(s_cp) ELSE Len(s_mate)) + 1
        e5 == RunEnd(s, p5, ScoreChars)
        p6 == e5 + 1 + Len(s_nodes)
        e6 == RunEnd(s, p6, DigitChars)
        ks == {k \in (e6 + 2)..Len(s) : TimePvAt(s, k)}
    IN  IF /\ LitAt(s, i, s_info_depth)
           /\ e1 >= p1
           /\ LitAt(s, e1 + 1, s_seldepth)
           /\ e2 >= p2
           /\ LitAt(s, e2 + 1, s_multipv)
           /\ p3 <= Len(s)
           /\ s[p3] \in DigitChars
           /\ LitAt(s, p3 + 1, s_score_)
           /\ (isCp \/ isMate)
           /\ e5 >= p5
           /\ LitAt(s, e5 + 1, s_nodes)
           /\ e6 >= p6
           /\ e6 + 1 <= Len(s)
           /\ s[e6 + 1] = " "
           /\ ks # {}
        THEN LET k == CHOOSE x \in ks : \A y \in ks : x >= y
                 p7 == k + Len(s_time)
                 e7 == RunEnd(s, p7, DigitChars)
                 p8 == e7 + 1 + Len(s_pv)
                 e8 == RunEnd(s, p8, PvChars)
             IN  << << SubSeq(s, p1, e1), SubSeq(s, p2, e2), <<s[p3]>>,
                       IF isCp THEN s_cp ELSE s_mate, SubSeq(s, p5, e5), SubSeq(s, p6, e6),
                       SubSeq(s, p7, e7), SubSeq(s, p8, e8) >> >>
        ELSE <<>>

\* [t |-> "none"], the list as a record, or [t |-> "ValueError"]
parse_info(info) ==
    LET starts == {i \in 1..Len(info) : InfoMatchAt(info, i) # <<>>}
    IN  IF starts = {} THEN [t |-> "none"]
        ELSE LET groups == InfoMatchAt(info, CHOOSE i \in starts : \A j \in starts : i <= j)[1]
             IN  IF ~IsInt(groups[5]) THEN [t |-> "ValueError"]
                 ELSE LET score == IntOf(groups[5])
                      IN  [t |-> "list",
                           depth |-> NatOf(groups[1]),
                           seldepth |-> NatOf(groups[2]),
                           score |-> IF groups[4] = s_mate THEN MateEquity(score) ELSE score,
                           nodes |-> NatOf(groups[6]),
                           move_one |-> groups[8],
                           multipv |-> NatOf(groups[3]),
                           comptime |-> NatOf(groups[7])]

(***************************************************************************)
(* The stockfish processes.  A build is the option set the binary knows,   *)
(* whether it prints an evaluation line after 'position fen', and whether  *)
(* it prints an 'info string' line after 'readyok'.                        *)
(***************************************************************************)
Engines == {"deep", "shallow"}

\* engines.keys() of the dictionary given to Match
EngineKeys == <<"deep", "shallow">>

\* the order in which the caller constructs the two sessions
ConstructOrder == <<"deep", "shallow">>

LegacyBuild == [
    options |-> {o_Ponder, o_Contempt_Factor, o_Min_Split_Depth, o_Threads, o_Hash,
                 o_MultiPV, o_Skill_Level, o_Minimum_Thinking_Time, o_Slow_Mover,
                 o_UCI_Chess960},
    evalOnFen |-> TRUE,
    chatty |-> FALSE]

ModernBuild == [
    options |-> {o_Ponder, o_Write_Debug_Log, o_Contempt, o_Threads, o_Hash, o_MultiPV,
                 o_Skill_Level, o_Move_Overhead, o_Minimum_Thinking_Time, o_Slow_Mover,
                 o_UCI_Chess960},
    evalOnFen |-> FALSE,
    chatty |-> FALSE]

\* a binary with the options of the modern one that prints a line after 'readyok'
ChattyBuild == [
    options |-> ModernBuild.options,
    evalOnFen |-> FALSE,
    chatty |-> TRUE]

\* Engine(depth=5) on a legacy binary
ArgsDepth == [depth |-> <<5>>, movetime |-> <<>>, ponder |-> FALSE, param |-> <<>>,
              rand |-> FALSE, rand_min |-> -10, rand_max |-> 10, build |-> LegacyBuild]

\* Engine(movetime=1000, param={'Hash': 32}) on a modern binary
ArgsMovetime == [depth |-> <<>>, movetime |-> <<1000>>, ponder |-> FALSE,
                 param |-> << <<o_Hash, IntV(32)>> >>,
                 rand |-> FALSE, rand_min |-> -10, rand_max |-> 10, build |-> ModernBuild]

\* Engine(depth=20, movetime=1000, ponder=True, rand=True, rand_min=-1, rand_max=0)
\* on a modern binary that prints a line after 'readyok'
ArgsBoth == [depth |-> <<20>>, movetime |-> <<1000>>, ponder |-> TRUE, param |-> <<>>,
             rand |-> TRUE, rand_min |-> -1, rand_max |-> 0, build |-> ChattyBuild]

\* Engine(): the defaults of the constructor, on a legacy binary
ArgsDefault == [depth |-> <<>>, movetime |-> <<>>, ponder |-> FALSE, param |-> <<>>,
                rand |-> FALSE, rand_min |-> -10, rand_max |-> 10, build |-> LegacyBuild]

\* the pairs of sessions a caller constructs
Setups == {
    [deep |-> ArgsMovetime, shallow |-> ArgsDepth],
    [deep |-> ArgsBoth, shallow |-> ArgsDefault] }

\* the n-th move of the engines' line of play, n counted from 0
Book == <<m_e2e4, m_e7e5, m_g1f3, m_b8c6>>

BookMove(n) == Book[(n % Len(Book)) + 1]

\* 'bestmove <move> ponder <ponder>'
BestLine(m, p) == s_bestmove_ \o m \o s_ponder_ \o p

\* answers to 'go' in a position after n moves that leave the game going:
\* a real ponder move and no mate score
RealScripts(n) == {
    << BestLine(BookMove(n), BookMove(n + 1)) >>,
    << l_info_cp34, l_currmove, BestLine(BookMove(n), BookMove(n + 1)) >> }

\* every answer to 'go' in a position after n moves
Scripts(n) == RealScripts(n) \cup {
    << l_info_mate12, BestLine(BookMove(n), BookMove(n + 1)) >>,
    << l_info_mate1, BestLine(BookMove(n), s_none) >>,
    << l_info_mate12, BestLine(BookMove(n), s_none) >>,
    << l_info_mate_neg3, BestLine(BookMove(n), s_none) >>,
    << l_info_cp0, BestLine(BookMove(n), s_none) >>,
    << l_info_mate0, BestLine(BookMove(n), s_none) >>,
    << s_bestmove_ \o BookMove(n) >> }

\* the 'info' line of the documented shape: 'info depth D seldepth S
\* multipv P score <tag> V nodes N <mid> time T pv <moves>', mid the
\* engine-specific fields between nodes and time ('' or e.g. 'nps 83000')
InfoLine(D, S, P, tag, V, N, mid, T, pv) ==
    s_info_depth \o IntStr(D) \o s_seldepth \o IntStr(S) \o s_multipv \o IntStr(P)
        \o s_score_ \o tag \o <<" ">> \o IntStr(V) \o s_nodes \o IntStr(N)
        \o (IF mid = <<>> THEN <<>> ELSE <<" ">> \o mid)
        \o s_time \o IntStr(T) \o s_pv \o Strip(MoveConcat(pv, 1, Len(pv)))

InfoDepths == {5, 24}

InfoMultipvs == {1, 2, 12}

InfoTags == {s_cp, s_mate}

InfoScores == {34, -7, 0, 1, -3, 12}

InfoMids == {<<>>, l_nps}

InfoPvs == { <<m_e2e4>>, <<m_e2e4, m_e7e5>>, <<m_g1f3, m_b8c6, m_e2e4>> }

\* the lines of the documented shape a process prints during a search
ShapedLines ==
    {InfoLine(D, D + 2, P, tag, V, 1000, mid, 12, pv) :
        D \in InfoDepths, P \in InfoMultipvs, tag \in InfoTags, V \in InfoScores,
        mid \in InfoMids, pv \in InfoPvs}

\* lines a process prints that lack a token of the shape
OtherLines == {<<>>, l_currmove, l_info_string, l_info_short, l_info_mate0, l_info_cp0, l_uciok,
               BestLine(m_e2e4, m_e7e5)}

IsPrefix(p, s) == Len(p) <= Len(s) /\ SubSeq(s, 1, Len(p)) = p

\* the number of words of a line
NumWords(s) == Cardinality({i \in 1..Len(s) : s[i] # " " /\ (i = 1 \/ s[i - 1] = " ")})

\* the option name of a 'setoption name <name> value <value>' line
OptionOf(cmd) == SubSeq(cmd, Len(s_setoption_name) + 1, Find(cmd, s_value))

(***************************************************************************)
(* Arguments of the calls a caller makes on a session it constructed.      *)
(***************************************************************************)
MaxPosMoves == 2

\* the move lists given to setposition
PosMoveLists == {[i \in 1..n |-> BookMove(i - 1)] : n \in 0..MaxPosMoves}

\* the (name, value) pairs given to setoption
ApiOptions == { <<o_Hash, IntV(64)>>, <<o_Contempt_Factor, IntV(10)>>, <<o_Contempt, IntV(10)>> }

\* the hard ply cap of Match.move
PlyCap == 200

NoName == "None"

(***************************************************************************)
(* State.                                                                  *)
(***************************************************************************)
VARIABLES
    args,             \* the constructor arguments and binary of each session
    sessions,         \* the sessions whose Engine.__init__ has returned
    depth,            \* Engine.depth
    movetime,         \* Engine.movetime
    ponder,           \* Engine.ponder
    param,            \* Engine.param
    alive,            \* the process of each session has not exited
    eof,              \* stdout.readline() has returned '' at end of file
    inq,              \* stdin pipe of each process: lines written, not yet taken
    out,              \* stdout pipe of each process: lines emitted, not yet read
    epos,             \* the number of moves of the position each process holds
    io,               \* lines written to / read from each session in the current call
    warned,           \* options for which the "unable to set option" line was printed
    allReal,          \* every 'go' so far was answered with a real ponder and no mate
    call,             \* the call the caller made last
    pc,               \* the statement the interpreter is at
    cur,              \* self of the Engine method that is running
    ret,              \* where the running Engine method returns to
    iret,             \* where isready returns to
    optionname,       \* setoption's argument
    todo,             \* the items Engine.__init__ has still to apply
    lastline,         \* isready's local
    last_score_line,  \* bestmove's local
    infos,            \* go_infos's local
    text,             \* setfen's local
    retval,           \* the value the last Engine method returned
    exc,              \* the exception that ended the program, if any
    white, black,     \* Match.white, Match.black
    moves,            \* Match.moves
    winner,           \* Match.winner
    winner_engine,    \* Match.winner_engine
    active, inactive, \* Match.move's active_engine_name, inactive_engine_name
    inRun,            \* Match.move was called by Match.run
    mres,             \* what Match.move returned
    rres              \* what Match.run returned

sessVars == <<args, sessions, depth, movetime, ponder, param>>

procVars == <<alive, eof>>

pipeVars == <<inq, out, epos, allReal>>

matchVars == <<white, black, moves, winner, winner_engine>>

moveVars == <<active, inactive, inRun, mres, rres>>

localVars == <<cur, ret, iret, optionname, todo, lastline, last_score_line, infos, text,
              retval>>

vars == <<sessVars, procVars, pipeVars, io, warned, call, pc, exc, localVars, matchVars, moveVars>>

NoIO == [e \in Engines |-> <<>>]

\* nothing constructed, nothing called
InitRest ==
    /\ sessions = {}
    /\ depth = [e \in Engines |-> <<>>]
    /\ movetime = [e \in Engines |-> <<>>]
    /\ ponder = [e \in Engines |-> FALSE]
    /\ param = [e \in Engines |-> <<>>]
    /\ alive = [e \in Engines |-> TRUE]
    /\ eof = FALSE
    /\ inq = [e \in Engines |-> <<>>]
    /\ out = [e \in Engines |-> <<>>]
    /\ epos = [e \in Engines |-> 0]
    /\ io = NoIO
    /\ warned = [e \in Engines |-> {}]
    /\ allReal = TRUE
    /\ call = "none"
    /\ cur = NoName
    /\ ret = "none"
    /\ iret = "none"
    /\ optionname = <<>>
    /\ todo = <<>>
    /\ lastline = <<>>
    /\ last_score_line = <<>>
    /\ infos = <<>>
    /\ retval = NoneV
    /\ exc = "none"
    /\ white = NoName
    /\ black = NoName
    /\ moves = <<>>
    /\ winner = NoName
    /\ winner_engine = NoName
    /\ active = NoName
    /\ inactive = NoName
    /\ inRun = FALSE
    /\ mres = FALSE
    /\ rres = NoName

Init ==
    /\ args \in Setups
    /\ pc = "boot"
    /\ text = <<>>
    /\ InitRest

(***************************************************************************)
(* Engine.put and stdout.readline, with the record of the session's I/O.   *)
(***************************************************************************)
\* put(line) for each line of cmds on session e, in a call whose record so far is rec
PutAll(e, cmds, rec) ==
    /\ inq' = [inq EXCEPT ![e] = @ \o cmds]
    /\ io' = [rec EXCEPT ![e] = @ \o [i \in 1..Len(cmds) |-> <<"w", cmds[i]>>]]

\* stdout.readline() on session e: blocks while the pipe is empty and the
\* process lives; at end of file (the process gone, the pipe drained) it
\* returns ''
CanRead(e) == out[e] # <<>> \/ ~alive[e]

\* the line readline() returns
NextLine(e) == IF out[e] # <<>> THEN Head(out[e]) ELSE <<>>

ReadLine(e) ==
    IF out[e] # <<>>
    THEN /\ out' = [out EXCEPT ![e] = Tail(@)]
         /\ io' = [io EXCEPT ![e] = Append(@, <<"r", Head(out[e])>>)]
         /\ eof' = eof
    ELSE /\ eof' = TRUE
         /\ UNCHANGED <<out, io>>

\* an uncaught exception ends the program
Raise(name) ==
    /\ pc' = "raised"
    /\ exc' = name

(***************************************************************************)
(* Engine.isready                                                          *)
(***************************************************************************)
\* IsreadyDone leaving the loop on any line: a sensitivity test of C20
IsreadyDoneAnyLine(line) == TRUE

\* the loop's exit test
IsreadyDone(line) == line = s_readyok

\* IsreadyResult returning the line just read: a sensitivity test of C8
IsreadyResultText(last, line) == line

\* the value returned at the exit
IsreadyResult(last, line) == last

\* lines 317-318; stdin.write on the pipe of a process that is gone raises
\* IOError (broken pipe)
IsreadyPut ==
    /\ pc = "ir_put"
    /\ IF alive[cur]
       THEN /\ PutAll(cur, <<s_isready>>, io)
            /\ lastline' = <<>>
            /\ pc' = "ir_read"
            /\ exc' = exc
       ELSE /\ Raise("IOError")
            /\ UNCHANGED <<inq, io, lastline>>
    /\ UNCHANGED <<sessVars, procVars, out, epos, allReal, warned, call, cur, ret, iret,
                   optionname, todo, last_score_line, infos, text, retval, matchVars, moveVars>>

IsreadyRead ==
    /\ pc = "ir_read"
    /\ CanRead(cur)
    /\ ReadLine(cur)
    /\ LET line == Strip(NextLine(cur))
       IN  IF IsreadyDone(line)
           THEN /\ retval' = StrV(IsreadyResult(lastline, line))
                /\ lastline' = <<>>
                /\ pc' = iret
           ELSE /\ lastline' = line
                /\ UNCHANGED <<retval, pc>>
    /\ UNCHANGED <<sessVars, alive, inq, epos, allReal, warned, call, exc, cur, ret, iret,
                   optionname, todo, last_score_line, infos, text, matchVars, moveVars>>

(***************************************************************************)
(* Engine.setoption                                                        *)
(***************************************************************************)
\* the test on the line isready returned
OptionRejected(stdout) == Find(stdout, s_No_such) >= 0

\* AfterOptionCheck raising on a rejected option: a sensitivity test of C10
RaiseOnReject(rejected, back) == IF rejected THEN "raised" ELSE back

\* where setoption goes after the test: it prints and returns
AfterOptionCheck(rejected, back) == back

SetoptionCheck ==
    /\ pc = "so_chk"
    /\ warned' = IF OptionRejected(retval.v)
                 THEN [warned EXCEPT ![cur] = @ \cup {optionname}]
                 ELSE warned
    /\ LET next == AfterOptionCheck(OptionRejected(retval.v), ret)
       IN  IF next = "raised" THEN Raise("Exception") ELSE pc' = next /\ exc' = exc
    /\ retval' = NoneV
    /\ optionname' = <<>>
    /\ UNCHANGED <<sessVars, procVars, pipeVars, io, call, cur, ret, iret, todo, lastline,
                   last_score_line, infos, text, matchVars, moveVars>>

(***************************************************************************)
(* Engine.__init__                                                         *)
(***************************************************************************)
\* the session constructed next
NextToBuild == ConstructOrder[Cardinality(sessions) + 1]

\* lines 118-130: the fields, 'uci', and setoption('Ponder', False)
NewEngine ==
    /\ pc = "boot"
    /\ LET e == NextToBuild
           a == args[e]
       IN  /\ depth' = [depth EXCEPT ![e] = a.depth]
           /\ movetime' = [movetime EXCEPT ![e] = a.movetime]
           /\ ponder' = [ponder EXCEPT ![e] = a.ponder]
           /\ cur' = e
           /\ IF ~a.ponder
              THEN /\ PutAll(e, <<s_uci, SetoptionCmd(o_Ponder, BoolV(FALSE))>>, NoIO)
                   /\ optionname' = o_Ponder
                   /\ pc' = "ir_put"
                   /\ iret' = "so_chk"
                   /\ ret' = "i_base"
              ELSE /\ PutAll(e, <<s_uci>>, NoIO)
                   /\ pc' = "i_base"
                   /\ UNCHANGED <<optionname, iret, ret>>
    /\ call' = "Engine"
    /\ UNCHANGED <<procVars, args, sessions, param, out, epos, allReal, warned, exc, todo, lastline,
                   last_score_line, infos, text, retval, matchVars, moveVars>>

\* the values randint(rand_min, rand_max) can return
RandRange(a) == a.rand_min..a.rand_max

\* lines 148-149: the value assigned is the right-hand side with its trailing
\* comma, a tuple of one element
RandValue(n) == TupleV(n)

\* lines 147-149: the table after the random draws
RandParam(a, c, cf) ==
    IF a.rand
    THEN DictUpdate(base_param, << <<o_Contempt, RandValue(c)>>,
                                   <<o_Contempt_Factor, RandValue(cf)>> >>)
    ELSE base_param

\* lines 132-152: the option table, merged with the caller's
InitBase ==
    /\ pc = "i_base"
    /\ \E c \in RandRange(args[cur]) : \E cf \in RandRange(args[cur]) :
         LET merged == DictUpdate(RandParam(args[cur], c, cf), args[cur].param)
         IN  /\ param' = [param EXCEPT ![cur] = merged]
             /\ todo' \in ItemOrders(merged)
    /\ pc' = "i_loop"
    /\ UNCHANGED <<procVars, args, sessions, depth, movetime, ponder, pipeVars, io, warned, call, exc,
                   cur, ret, iret, optionname, lastline, last_score_line, infos, text, retval,
                   matchVars, moveVars>>

\* lines 153-154: one turn of the loop over the items
InitLoop ==
    /\ pc = "i_loop"
    /\ todo # <<>>
    /\ PutAll(cur, <<SetoptionCmd(todo[1][1], todo[1][2])>>, io)
    /\ optionname' = todo[1][1]
    /\ todo' = Tail(todo)
    /\ pc' = "ir_put"
    /\ iret' = "so_chk"
    /\ ret' = "i_loop"
    /\ UNCHANGED <<sessVars, procVars, out, epos, allReal, warned, call, exc, cur, lastline,
                   last_score_line, infos, text, retval, matchVars, moveVars>>

\* the loop is over: the constructor returns
InitDone ==
    /\ pc = "i_loop"
    /\ todo = <<>>
    /\ sessions' = sessions \cup {cur}
    /\ pc' = IF sessions \cup {cur} = Engines THEN "idle" ELSE "boot"
    /\ UNCHANGED <<procVars, args, depth, movetime, ponder, param, pipeVars, io, warned, call, exc,
                   localVars, matchVars, moveVars>>

(***************************************************************************)
(* Calls of the caller on a session, once both sessions are constructed    *)
(* and before it sets up a Match.                                          *)
(***************************************************************************)
CallerFree == pc \in {"idle", "api_done"}

\* Engine.newgame: 'ucinewgame', then isready
NewgameCmds == <<s_ucinewgame>>

\* Engine.setposition: the position line, then isready
SetpositionCmds(ms) == <<PositionCmd(ms)>>

\* SetpositionNext without the call of isready: a sensitivity test of C9
SetpositionNoSync(back) == back

\* line 183: after its put setposition calls isready, which returns to back
SetpositionNext(back) == "ir_put"

Newgame(e) ==
    /\ CallerFree
    /\ call' = "newgame"
    /\ cur' = e
    /\ PutAll(e, NewgameCmds, NoIO)
    /\ pc' = "ir_put"
    /\ iret' = "api_done"
    /\ retval' = NoneV
    /\ UNCHANGED <<sessVars, procVars, out, epos, allReal, warned, exc, ret, optionname, todo,
                   lastline, last_score_line, infos, text, matchVars, moveVars>>

Setoption(e, item) ==
    /\ CallerFree
    /\ call' = "setoption"
    /\ cur' = e
    /\ PutAll(e, <<SetoptionCmd(item[1], item[2])>>, NoIO)
    /\ optionname' = item[1]
    /\ pc' = "ir_put"
    /\ iret' = "so_chk"
    /\ ret' = "api_done"
    /\ retval' = NoneV
    /\ UNCHANGED <<sessVars, procVars, out, epos, allReal, warned, exc, todo, lastline,
                   last_score_line, infos, text, matchVars, moveVars>>

Setposition(e, ms) ==
    /\ CallerFree
    /\ call' = "setposition"
    /\ cur' = e
    /\ PutAll(e, SetpositionCmds(ms), NoIO)
    /\ pc' = SetpositionNext("api_done")
    /\ iret' = "api_done"
    /\ retval' = NoneV
    /\ UNCHANGED <<sessVars, procVars, out, epos, allReal, warned, exc, ret, optionname, todo,
                   lastline, last_score_line, infos, text, matchVars, moveVars>>

\* Engine.setfen, line 190
Setfen(e, fen) ==
    /\ CallerFree
    /\ call' = "setfen"
    /\ cur' = e
    /\ PutAll(e, <<FenCmd(fen)>>, NoIO)
    /\ pc' = "sf_read"
    /\ ret' = "api_done"
    /\ retval' = NoneV
    /\ UNCHANGED <<sessVars, procVars, out, epos, allReal, warned, exc, iret, optionname, todo,
                   lastline, last_score_line, infos, text, matchVars, moveVars>>

\* line 191: text = self.stdout.readline().strip(), then isready
SetfenRead ==
    /\ pc = "sf_read"
    /\ CanRead(cur)
    /\ ReadLine(cur)
    /\ text' = Strip(NextLine(cur))
    /\ pc' = "ir_put"
    /\ iret' = "sf_ret"
    /\ UNCHANGED <<sessVars, alive, inq, epos, allReal, warned, call, exc, cur, ret, optionname,
                   todo, lastline, last_score_line, infos, retval, matchVars, moveVars>>

\* line 193: [int(x) for x in text.split()]
SetfenReturn ==
    /\ pc = "sf_ret"
    /\ LET words == SplitWs(text)
       IN  IF \A i \in 1..Len(words) : IsInt(words[i])
           THEN /\ retval' = ListV([i \in 1..Len(words) |-> IntOf(words[i])])
                /\ pc' = ret
                /\ exc' = exc
           ELSE /\ retval' = NoneV
                /\ Raise("ValueError")
    /\ text' = <<>>
    /\ UNCHANGED <<sessVars, procVars, pipeVars, io, warned, call, cur, ret, iret, optionname, todo,
                   lastline, last_score_line, infos, matchVars, moveVars>>

(***************************************************************************)
(* Engine.bestmove                                                         *)
(***************************************************************************)
Bestmove(e) ==
    /\ CallerFree
    /\ call' = "bestmove"
    /\ cur' = e
    /\ PutAll(e, GoCmds(depth[e], movetime[e]), NoIO)
    /\ last_score_line' = <<>>
    /\ pc' = "bm_read"
    /\ ret' = "api_done"
    /\ retval' = NoneV
    /\ UNCHANGED <<sessVars, procVars, out, epos, allReal, warned, exc, iret, optionname, todo,
                   lastline, infos, text, matchVars, moveVars>>

\* BestmoveDict taking the word after the move for the ponder move: a
\* sensitivity test of C12
BestmoveDictWordThree(split_text, last) ==
    [t |-> "dict",
     move |-> split_text[2],
     ponder |-> IF Len(split_text) >= 3 THEN split_text[3] ELSE None,
     info |-> last,
     score_cp |-> score_cp_from_info(last)]

\* lines 283-289: the dictionary returned for the split 'bestmove' line
BestmoveDict(split_text, last) ==
    [t |-> "dict",
     move |-> split_text[2],
     ponder |-> IF Len(split_text) >= 3 THEN split_text[4] ELSE None,
     info |-> last,
     score_cp |-> score_cp_from_info(last)]

\* the exception lines 283-289 raise for the split line, or "none"
BestmoveError(split_text, last) ==
    IF score_cp_from_info(last).t = "ValueError" THEN "ValueError"
    ELSE IF Len(split_text) < 2 \/ Len(split_text) = 3 THEN "IndexError"
    ELSE "none"

\* lines 280-291: one turn of the read loop
BestmoveRead ==
    /\ pc = "bm_read"
    /\ CanRead(cur)
    /\ ReadLine(cur)
    /\ LET line == Strip(NextLine(cur))
           split_text == Split(line)
       IN  IF split_text[1] = s_bestmove
           THEN /\ last_score_line' = <<>>
                /\ IF BestmoveError(split_text, last_score_line) # "none"
                   THEN /\ Raise(BestmoveError(split_text, last_score_line))
                        /\ retval' = NoneV
                   ELSE /\ retval' = BestmoveDict(split_text, last_score_line)
                        /\ pc' = ret
                        /\ exc' = exc
           ELSE /\ last_score_line' = IF Contains(line, s_score) THEN line ELSE last_score_line
                /\ UNCHANGED <<retval, pc, exc>>
    /\ UNCHANGED <<sessVars, alive, inq, epos, allReal, warned, call, cur, ret, iret, optionname,
                   todo, lastline, infos, text, matchVars, moveVars>>

(***************************************************************************)
(* Engine.go_infos                                                         *)
(***************************************************************************)
GoInfos(e) ==
    /\ CallerFree
    /\ call' = "go_infos"
    /\ cur' = e
    /\ PutAll(e, GoCmds(depth[e], movetime[e]), NoIO)
    /\ infos' = <<>>
    /\ pc' = "gi_read"
    /\ ret' = "api_done"
    /\ retval' = NoneV
    /\ UNCHANGED <<sessVars, procVars, out, epos, allReal, warned, exc, iret, optionname, todo,
                   lastline, last_score_line, text, matchVars, moveVars>>

\* lines 303-307: the dictionary returned for the split 'bestmove' line
GoInfosDict(split_text, inf) ==
    [t |-> "infos_dict",
     move |-> split_text[2],
     ponder |-> IF Len(split_text) >= 3 THEN split_text[4] ELSE None,
     infos |-> inf]

\* the exception lines 303-307 raise for the split line, or "none"
GoInfosError(split_text) ==
    IF Len(split_text) < 2 \/ Len(split_text) = 3 THEN "IndexError" ELSE "none"

\* lines 308-311: infos after a line that is not the 'bestmove' line
InfosAfter(inf, line) ==
    IF Contains(line, s_score) /\ parse_info(line).t = "list"
    THEN Append(inf, parse_info(line))
    ELSE inf

\* lines 299-311: one turn of the read loop
GoInfosRead ==
    /\ pc = "gi_read"
    /\ CanRead(cur)
    /\ ReadLine(cur)
    /\ LET line == Strip(NextLine(cur))
           split_text == Split(line)
       IN  IF split_text[1] = s_bestmove
           THEN /\ infos' = <<>>
                /\ IF GoInfosError(split_text) # "none"
                   THEN /\ Raise(GoInfosError(split_text))
                        /\ retval' = NoneV
                   ELSE /\ retval' = GoInfosDict(split_text, infos)
                        /\ pc' = ret
                        /\ exc' = exc
           ELSE IF Contains(line, s_score) /\ parse_info(line).t = "ValueError"
           THEN /\ Raise("ValueError")
                /\ UNCHANGED <<retval, infos>>
           ELSE /\ infos' = InfosAfter(infos, line)
                /\ UNCHANGED <<retval, pc, exc>>
    /\ UNCHANGED <<sessVars, alive, inq, epos, allReal, warned, call, cur, ret, iret, optionname,
                   todo, lastline, last_score_line, text, matchVars, moveVars>>

(***************************************************************************)
(* Match                                                                   *)
(***************************************************************************)
\* NotBin giving the same index: a sensitivity test of C18
SameBin(random_bin) == random_bin

\* line 40: not random_bin, used as an index
NotBin(random_bin) == IF random_bin = 0 THEN 1 ELSE 0

\* Match.__init__, lines 38-44: the colours, and newgame of the white session
MatchInit ==
    /\ CallerFree
    /\ call' = "Match"
    /\ \E random_bin \in 0..1 :
         /\ white' = EngineKeys[random_bin + 1]
         /\ black' = EngineKeys[NotBin(random_bin) + 1]
    /\ moves' = <<>>
    /\ cur' = white'
    /\ PutAll(white', NewgameCmds, NoIO)
    /\ pc' = "ir_put"
    /\ iret' = "mi_black"
    /\ retval' = NoneV
    /\ UNCHANGED <<sessVars, procVars, out, epos, allReal, warned, exc, ret, optionname, todo,
                   lastline, last_score_line, infos, text, winner, winner_engine, moveVars>>

\* line 45: newgame of the black session
MatchInitBlack ==
    /\ pc = "mi_black"
    /\ cur' = black
    /\ PutAll(black, NewgameCmds, io)
    /\ pc' = "ir_put"
    /\ iret' = "mi_end"
    /\ UNCHANGED <<sessVars, procVars, out, epos, allReal, warned, call, exc, ret, optionname, todo,
                   lastline, last_score_line, infos, text, retval, matchVars, moveVars>>

\* lines 46-47
MatchInitEnd ==
    /\ pc = "mi_end"
    /\ winner' = NoName
    /\ pc' = "m_idle"
    /\ UNCHANGED <<sessVars, procVars, pipeVars, io, warned, call, exc, localVars, white, black,
                   moves, winner_engine, moveVars>>

\* line 50: the ply cap
MoveCapped(n) == n > PlyCap

\* BlackToMove with the parity inverted: a sensitivity test of C5
BlackOnEven(n) == n % 2 = 0

\* line 52: black is to move
BlackToMove(n) == n % 2 = 1

\* lines 50-62 of Match.move: the cap, the engine to move, setposition
MoveEntry ==
    /\ retval' = NoneV
    /\ IF MoveCapped(Len(moves))
       THEN /\ mres' = FALSE
            /\ pc' = "mv_done"
            /\ io' = NoIO
            /\ active' = NoName
            /\ inactive' = NoName
            /\ UNCHANGED <<inq, cur, iret>>
       ELSE /\ active' = IF BlackToMove(Len(moves)) THEN black ELSE white
            /\ inactive' = IF BlackToMove(Len(moves)) THEN white ELSE black
            /\ cur' = active'
            /\ PutAll(active', SetpositionCmds(moves), NoIO)
            /\ pc' = SetpositionNext("mv_bm")
            /\ iret' = "mv_bm"
            /\ mres' = FALSE
    /\ UNCHANGED <<sessVars, procVars, out, epos, allReal, warned, exc, ret, optionname, todo,
                   lastline, last_score_line, infos, text, matchVars>>

\* the caller may call move() or run() on the Match
CallerOnMatch == pc \in {"m_idle", "run_done"} \/ (pc = "mv_done" /\ ~inRun)

CallMove ==
    /\ CallerOnMatch
    /\ call' = "move"
    /\ inRun' = FALSE
    /\ rres' = NoName
    /\ MoveEntry

\* Match.run, line 86: the first move()
CallRun ==
    /\ CallerOnMatch
    /\ call' = "run"
    /\ inRun' = TRUE
    /\ rres' = NoName
    /\ MoveEntry

\* line 86: move() returned True, the next move()
RunLoop ==
    /\ pc = "mv_done"
    /\ inRun
    /\ mres
    /\ UNCHANGED <<call, inRun, rres>>
    /\ MoveEntry

\* line 87: move() returned False
RunReturn ==
    /\ pc = "mv_done"
    /\ inRun
    /\ ~mres
    /\ rres' = winner
    /\ inRun' = FALSE
    /\ pc' = "run_done"
    /\ UNCHANGED <<sessVars, procVars, pipeVars, io, warned, call, exc, localVars, matchVars, active,
                   inactive, mres>>

\* line 63: bestmove() of the active session
MoveBestmove ==
    /\ pc = "mv_bm"
    /\ PutAll(cur, GoCmds(depth[cur], movetime[cur]), io)
    /\ last_score_line' = <<>>
    /\ pc' = "bm_read"
    /\ ret' = "mv_decide"
    /\ UNCHANGED <<sessVars, procVars, out, epos, allReal, warned, call, exc, cur, iret, optionname,
                   todo, lastline, infos, text, retval, matchVars, moveVars>>

\* lines 71-73: int(info[mateloc+5]) when 'mate' is found;
\* [t |-> "none"] when it is not, an exception when the character is no digit
MateNum(info) ==
    LET mateloc == Find(info, s_mate)
        ch == CharAt(info, mateloc + 5)
    IN  IF mateloc < 0 THEN [t |-> "none"]
        ELSE IF ch = <<"IndexError">> THEN [t |-> "IndexError"]
        ELSE IF ~IsInt(ch) THEN [t |-> "ValueError"]
        ELSE IntV(IntOf(ch))

\* NewWinner with the two branches exchanged: a sensitivity test of C2
NewWinnerSwapped(matenum, act, inact, old) ==
    IF matenum.t # "int" THEN old
    ELSE IF matenum.v > 0 THEN inact
    ELSE IF matenum.v < 0 THEN act
    ELSE old

\* lines 74-79: the winner after a '(none)' ponder
NewWinner(matenum, act, inact, old) ==
    IF matenum.t # "int" THEN old
    ELSE IF matenum.v > 0 THEN act
    ELSE IF matenum.v < 0 THEN inact
    ELSE old

\* MoveGoesOn comparing with 'none' for '(none)': a sensitivity test of C4
MoveGoesOnNoParens(pondermove) == pondermove # <<"n", "o", "n", "e">>

\* line 69: move() returns True
MoveGoesOn(pondermove) == pondermove # s_none

\* lines 64-80
MoveDecide ==
    /\ pc = "mv_decide"
    /\ moves' = Append(moves, retval.move)
    /\ IF MoveGoesOn(retval.ponder)
       THEN /\ mres' = TRUE
            /\ pc' = "mv_done"
            /\ UNCHANGED <<winner, winner_engine, exc>>
       ELSE LET matenum == MateNum(retval.info)
            IN  IF matenum.t \in {"IndexError", "ValueError"}
                THEN /\ Raise(matenum.t)
                     /\ UNCHANGED <<winner, winner_engine, mres>>
                ELSE /\ winner' = NewWinner(matenum, active, inactive, winner)
                     /\ winner_engine' = NewWinner(matenum, active, inactive, winner_engine)
                     /\ mres' = FALSE
                     /\ pc' = "mv_done"
                     /\ exc' = exc
    /\ UNCHANGED <<sessVars, procVars, pipeVars, io, warned, call, localVars, white, black, active,
                   inactive, inRun, rres>>

(***************************************************************************)
(* The stockfish processes: each takes the next line of its stdin.         *)
(***************************************************************************)
\* the process of session e runs and has a command line to take
HasCmd(e) == alive[e] /\ inq[e] # <<>>

Answer(e, lines) ==
    /\ inq' = [inq EXCEPT ![e] = Tail(@)]
    /\ out' = [out EXCEPT ![e] = @ \o lines]

EngineRest == <<sessVars, procVars, io, warned, call, pc, exc, localVars, matchVars, moveVars>>

EngineUci(e) ==
    /\ HasCmd(e)
    /\ Head(inq[e]) = s_uci
    /\ Answer(e, <<l_id_name, l_uciok>>)
    /\ UNCHANGED <<epos, allReal, EngineRest>>

EngineSetoption(e) ==
    /\ HasCmd(e)
    /\ IsPrefix(s_setoption_name, Head(inq[e]))
    /\ LET name == OptionOf(Head(inq[e]))
       IN  Answer(e, IF name \in args[e].build.options THEN <<>>
                     ELSE <<l_No_such_option \o name>>)
    /\ UNCHANGED <<epos, allReal, EngineRest>>

EngineNewgame(e) ==
    /\ HasCmd(e)
    /\ Head(inq[e]) = s_ucinewgame
    /\ Answer(e, <<>>)
    /\ UNCHANGED <<epos, allReal, EngineRest>>

EngineIsready(e) ==
    /\ HasCmd(e)
    /\ Head(inq[e]) = s_isready
    /\ Answer(e, IF args[e].build.chatty THEN <<s_readyok, l_info_string>>
                 ELSE <<s_readyok>>)
    /\ UNCHANGED <<epos, allReal, EngineRest>>

EnginePosition(e) ==
    /\ HasCmd(e)
    /\ IsPrefix(s_position_startpos_moves, Head(inq[e]))
    /\ Answer(e, <<>>)
    /\ epos' = [epos EXCEPT ![e] = NumWords(Head(inq[e])) - 3]
    /\ UNCHANGED <<allReal, EngineRest>>

EngineFen(e) ==
    /\ HasCmd(e)
    /\ IsPrefix(s_position_fen, Head(inq[e]))
    /\ Answer(e, IF args[e].build.evalOnFen THEN <<l_eval>> ELSE <<>>)
    /\ epos' = [epos EXCEPT ![e] = 0]
    /\ UNCHANGED <<allReal, EngineRest>>

EngineGo(e) ==
    /\ HasCmd(e)
    /\ IsPrefix(<<"g", "o", " ">>, Head(inq[e]))
    /\ \E script \in Scripts(epos[e]) :
         /\ Answer(e, script)
         /\ allReal' = (allReal /\ script \in RealScripts(epos[e]))
    /\ UNCHANGED <<epos, EngineRest>>

\* the interpreter is blocked in readline() on session e
Waiting(e) == pc \in {"ir_read", "sf_read", "bm_read", "gi_read"} /\ cur = e /\ out[e] = <<>>

\* The process of session e exits (it crashed or was killed).  The exit is
\* considered while a call is blocked reading from the process: the case in
\* which the call finds the end of the stream.
EngineExit(e) ==
    /\ alive[e]
    /\ Waiting(e)
    /\ alive' = [alive EXCEPT ![e] = FALSE]
    /\ UNCHANGED <<sessVars, eof, pipeVars, io, warned, call, pc, exc, localVars, matchVars,
                   moveVars>>

Next ==
    \/ NewEngine
    \/ InitBase
    \/ InitLoop
    \/ InitDone
    \/ IsreadyPut
    \/ IsreadyRead
    \/ SetoptionCheck
    \/ \E e \in Engines : Newgame(e)
    \/ \E e \in Engines : \E item \in ApiOptions : Setoption(e, item)
    \/ \E e \in Engines : \E ms \in PosMoveLists : Setposition(e, ms)
    \/ \E e \in Engines : Setfen(e, f_startfen)
    \/ SetfenRead
    \/ SetfenReturn
    \/ \E e \in Engines : Bestmove(e)
    \/ BestmoveRead
    \/ \E e \in Engines : GoInfos(e)
    \/ GoInfosRead
    \/ MatchInit
    \/ MatchInitBlack
    \/ MatchInitEnd
    \/ CallMove
    \/ CallRun
    \/ RunLoop
    \/ RunReturn
    \/ MoveBestmove
    \/ MoveDecide
    \/ \E e \in Engines : EngineUci(e)
    \/ \E e \in Engines : EngineSetoption(e)
    \/ \E e \in Engines : EngineNewgame(e)
    \/ \E e \in Engines : EngineIsready(e)
    \/ \E e \in Engines : EnginePosition(e)
    \/ \E e \in Engines : EngineFen(e)
    \/ \E e \in Engines : EngineGo(e)
    \/ \E e \in Engines : EngineExit(e)

Spec == Init /\ [][Next]_vars

(***************************************************************************)
(* The two parsing functions on their own: a line is given, and one of the *)
(* functions is applied to it.                                             *)
(***************************************************************************)
ParseInit ==
    /\ args \in Setups
    /\ pc = "fn_idle"
    /\ text \in ShapedLines \cup OtherLines
    /\ InitRest

FnRest == <<sessVars, procVars, pipeVars, io, warned, cur, ret, iret, optionname, todo,
            lastline, last_score_line, infos, text, matchVars, moveVars>>

\* where a function that returned result leaves the interpreter
FnReturn(result) ==
    IF result.t = "ValueError"
    THEN Raise("ValueError") /\ retval' = NoneV
    ELSE pc' = "fn_done" /\ exc' = exc /\ retval' = result

CallScoreCp ==
    /\ pc = "fn_idle"
    /\ call' = "score_cp_from_info"
    /\ FnReturn(score_cp_from_info(text))
    /\ UNCHANGED FnRest

CallParseInfo ==
    /\ pc = "fn_idle"
    /\ call' = "parse_info"
    /\ FnReturn(parse_info(text))
    /\ UNCHANGED FnRest

ParseNext == CallScoreCp \/ CallParseInfo

ParseSpec == ParseInit /\ [][ParseNext]_vars

(***************************************************************************)
(* Properties.                                                             *)
(***************************************************************************)
\* the move() that returned last has played a ply: retval is the search result
Played == pc \in {"mv_done", "run_done"} /\ active # NoName

\* the integer after the word 'mate' of an info line, read as a whole word
MateWords(info) ==
    LET words == Split(info)
    IN  {i \in 1..(Len(words) - 1) : words[i] = s_mate /\ IsInt(words[i + 1])}

HasMateCount(info) == MateWords(info) # {}

MateCount(info) ==
    LET words == Split(info)
        i == CHOOSE k \in MateWords(info) : \A j \in MateWords(info) : k <= j
    IN  IntOf(words[i + 1])

\* the search ended the game: ponder '(none)'
PonderNone == Played /\ retval.ponder = s_none

\* C1: the move list of a match never holds more than 200 moves.
C1_AtMost200Moves == Len(moves) <= 200

\* C2: after a ply whose search result has ponder '(none)' and a score
\* 'mate N' with N > 0, the winner is the engine that just moved, move()
\* has returned False, and run() returns that engine's name.
C2_PositiveMateCreditsMover ==
    (PonderNone /\ HasMateCount(retval.info) /\ MateCount(retval.info) > 0)
        => /\ winner = active
           /\ winner_engine = active
           /\ mres = FALSE
           /\ pc = "run_done" => rres = active

\* run() has returned the black engine's name after black announced mate in 12
C2_Witness ==
    /\ pc = "run_done"
    /\ PonderNone
    /\ HasMateCount(retval.info)
    /\ MateCount(retval.info) = 12
    /\ active = black
    /\ rres = black

\* C3: after a ply whose search result has ponder '(none)' and a score
\* 'mate N' with N < 0, move() has completed without an exception and the
\* winner is the engine that did not move; run() returns that name.
C3_NegativeMateCreditsOther ==
    (/\ active # NoName
     /\ pc \in {"mv_done", "run_done", "raised"}
     /\ retval.t = "dict"
     /\ retval.ponder = s_none
     /\ HasMateCount(retval.info)
     /\ MateCount(retval.info) < 0)
        => /\ pc # "raised"
           /\ winner = inactive
           /\ pc = "run_done" => rres = inactive

\* the search result has ponder '(none)' and an info line without 'mate'
NoneWithoutMate(result) == result.ponder = s_none /\ ~Contains(result.info, s_mate)

\* C4 as stated: after a ply whose search result has ponder '(none)' and no
\* 'mate' in its info line, move() has not stopped play: it returned True,
\* and a run() that has returned has done so at the ply cap.
C4_Original ==
    (Played /\ NoneWithoutMate(retval))
        => /\ mres = TRUE
           /\ pc = "run_done" => Len(moves) > PlyCap

\* C4 as amended: the step of move() that handles a search result with ponder
\* '(none)' and no 'mate' appends the move, leaves the winner as it was and
\* returns False; run() then stops at once and returns the winner as it is.
C4_NoMateNoneStopsUndecided ==
    [][ /\ (pc = "mv_decide" /\ NoneWithoutMate(retval))
            => /\ pc' = "mv_done"
               /\ mres' = FALSE
               /\ winner' = winner
               /\ moves' = Append(moves, retval.move)
        /\ (pc = "mv_done" /\ pc' # pc /\ inRun /\ active # NoName /\ NoneWithoutMate(retval))
            => /\ pc' = "run_done"
               /\ rres' = winner
               /\ moves' = moves ]_vars

\* run() has returned None before the ply cap, after a '(none)' ponder without mate
C4_Witness ==
    /\ pc = "run_done"
    /\ Played
    /\ NoneWithoutMate(retval)
    /\ rres = NoName
    /\ Len(moves) < PlyCap

\* the lines written to session e in the current call, in order
Writes(e) ==
    LET w == SelectSeq(io[e], LAMBDA ev : ev[1] = "w")
    IN  [i \in 1..Len(w) |-> w[i][2]]

\* the lines read from session e in the current call, in order
Reads(e) ==
    LET r == SelectSeq(io[e], LAMBDA ev : ev[1] = "r")
    IN  [i \in 1..Len(r) |-> r[i][2]]

\* C5: in a move() that played ply k, the session written to is white's for
\* even k and black's for odd k; it was sent the position line with exactly
\* the first k moves in order, then isready, then go; the other session was
\* sent nothing; and move k is the move of the bestmove line read last.
C5_MoverGetsTheMovesSoFar ==
    Played =>
        LET k == Len(moves) - 1
            w == Writes(active)
            r == Reads(active)
        IN  /\ white # black
            /\ active = (IF k % 2 = 0 THEN white ELSE black)
            /\ inactive = (IF k % 2 = 0 THEN black ELSE white)
            /\ io[inactive] = <<>>
            /\ Len(w) = 3
            /\ SplitWs(w[1]) = SplitWs(s_position_startpos_moves) \o SubSeq(moves, 1, k)
            /\ w[2] = s_isready
            /\ IsPrefix(<<"g", "o", " ">>, w[3])
            /\ moves[k + 1] = Split(Strip(r[Len(r)]))[2]

\* black has played ply 3 with the three earlier moves in its position line
C5_Witness ==
    /\ Played
    /\ Len(moves) = 4
    /\ active = black
    /\ SplitWs(Writes(black)[1]) = SplitWs(s_position_startpos_moves) \o SubSeq(moves, 1, 3)
    /\ moves = <<m_e2e4, m_e7e5, m_g1f3, m_b8c6>>

\* C6: every step keeps the moves played so far as a prefix of the move
\* list, and once the winner is set no step changes the winner or the list.
C6_WinnerIsTerminal ==
    [][ /\ Len(moves') >= Len(moves)
        /\ SubSeq(moves', 1, Len(moves)) = moves
        /\ winner # NoName => (winner' = winner /\ moves' = moves) ]_vars

\* the interpreter waits in readline for a line that will not come: the
\* pipe is empty and the process has no command left to answer
Starved ==
    /\ pc \in {"ir_read", "sf_read", "bm_read", "gi_read"}
    /\ alive[cur]
    /\ out[cur] = <<>>
    /\ inq[cur] = <<>>

\* C7: while the engines have answered every 'go' with a real ponder move
\* and no mate, run() is never left waiting for a line that will not come
\* and never ends in an exception, so it goes on ply by ply; and when it
\* has returned it has returned None, with the match at the ply cap.
C7_RunEndsDrawn ==
    (allReal /\ call = "run")
        => /\ ~Starved
           /\ pc # "raised"
           /\ pc = "run_done" => (rres = NoName /\ Len(moves) > PlyCap)

\* the line isready read last in its loop, '' before its first read
PrevRead(e) ==
    LET t == io[e]
    IN  IF t = <<>> \/ t[Len(t)][1] = "w" THEN <<>> ELSE Strip(t[Len(t)][2])

\* C8: isready on a running process writes 'isready' and nothing else; each turn of its loop
\* takes exactly one line; it returns on the turn that takes 'readyok', and
\* on no other, with the line of the turn before (or ''); so setposition is
\* back with its caller on that turn.
C8_IsreadyStopsAtReadyok ==
    [][ /\ (pc = "ir_put" /\ pc' # pc /\ alive[cur])
            => /\ pc' = "ir_read"
               /\ inq' = [inq EXCEPT ![cur] = Append(@, s_isready)]
        /\ (pc = "ir_read" /\ io' = io) => pc' = pc
        /\ (pc = "ir_read" /\ io' # io)
            => /\ out' = [out EXCEPT ![cur] = Tail(@)]
               /\ inq' = inq
               /\ IF Strip(Head(out[cur])) = s_readyok
                  THEN pc' = iret /\ retval' = StrV(PrevRead(cur))
                  ELSE pc' = pc
        /\ (pc = "ir_read" /\ pc' # pc /\ call = "setposition") => pc' = "api_done"
        /\ (pc = "ir_read" /\ pc' # pc /\ call \in {"move", "run"}) => pc' = "mv_bm" ]_vars

\* setposition has returned: isready returned the line before 'readyok', and
\* the line the process printed after 'readyok' is still unread
C8_Witness ==
    /\ pc = "api_done"
    /\ call = "setposition"
    /\ retval = StrV(l_info_string)
    /\ out[cur] = <<l_info_string>>

\* a command that changes the state of the engine
IsMutating(c) ==
    \/ IsPrefix(s_setoption_name, c)
    \/ c = s_ucinewgame
    \/ IsPrefix(s_position_startpos_moves, c)
    \/ IsPrefix(s_position_fen, c)

IsWrite(t, j) == t[j][1] = "w"

IsReadyokRead(t, j) == t[j][1] = "r" /\ Strip(t[j][2]) = s_readyok

\* the first write after event i is 'isready', and 'readyok' is read
\* between it and any later write
SyncedAfter(t, i) ==
    LET W == {j \in (i + 1)..Len(t) : IsWrite(t, j)}
    IN  W # {} =>
          LET j == CHOOSE x \in W : \A y \in W : x <= y
          IN  /\ t[j][2] = s_isready
              /\ \A k \in W \ {j} : \E r \in (j + 1)..(k - 1) : IsReadyokRead(t, r)

\* 'isready' was written after event i and 'readyok' was read after it
SyncCompleted(t, i) ==
    \E j \in (i + 1)..Len(t) :
        /\ t[j] = <<"w", s_isready>>
        /\ \E r \in (j + 1)..Len(t) : IsReadyokRead(t, r)

\* the states between two calls of the caller, where io starts afresh
BetweenCalls == pc \in {"boot", "idle", "api_done", "m_idle", "mv_done", "run_done"}

\* C9: on each session, the command written next after a state-changing
\* command is 'isready', no further command is written before 'readyok' is
\* read, and no call returns to the caller with that round trip missing.
C9_MutationsAreSynchronised ==
    \A e \in Engines : \A i \in 1..Len(io[e]) :
        (IsWrite(io[e], i) /\ IsMutating(io[e][i][2]))
            => /\ SyncedAfter(io[e], i)
               /\ BetweenCalls => SyncCompleted(io[e], i)

\* setfen has returned the three integers of the evaluation line
C9_Witness ==
    /\ pc = "api_done"
    /\ call = "setfen"
    /\ retval = ListV(<<12, -12, 3>>)
    /\ Writes(cur) = <<FenCmd(f_startfen), s_isready>>

\* the option names of the setoption lines written to session e
OptionsWritten(e) ==
    LET w == SelectSeq(Writes(e), LAMBDA c : IsPrefix(s_setoption_name, c))
    IN  [i \in 1..Len(w) |-> OptionOf(w[i])]

\* the options the constructor of session e has to apply
OptionsToApply(e) ==
    Keys(base_param) \cup Keys(args[e].param)
        \cup (IF args[e].ponder THEN {} ELSE {o_Ponder})

\* C10: no setoption ends in an exception; when the constructor is about to
\* return it has written one setoption line for each option of the table,
\* whatever was rejected, and has printed the warning for the rejected ones.
C10_RejectionIsNotFatal ==
    /\ call \in {"Engine", "setoption"} => pc # "raised"
    /\ (pc = "i_loop" /\ todo = <<>>)
        => /\ Len(OptionsWritten(cur)) = Cardinality(OptionsToApply(cur))
           /\ {OptionsWritten(cur)[i] : i \in 1..Len(OptionsWritten(cur))} = OptionsToApply(cur)
           /\ warned[cur] = OptionsToApply(cur) \ args[cur].build.options

\* a session that rejected 'Contempt Factor' and took 'Contempt' has
\* returned a search result
C10_Witness ==
    /\ pc = "api_done"
    /\ call = "bestmove"
    /\ retval.t = "dict"
    /\ o_Contempt_Factor \in warned[cur]
    /\ o_Contempt \notin warned[cur]

\* a 'go' command line
IsGoLine(c) == IsPrefix(<<"g", "o", " ">>, c)

\* C11: whenever bestmove or go_infos is in its read loop, the call has
\* written exactly one 'go' line to the session, as its last command:
\* 'go depth <depth>' or 'go movetime <movetime>' of the session.
C11_GoWritesOneCommand ==
    pc \in {"bm_read", "gi_read"} =>
        LET w == Writes(cur)
            g == SelectSeq(w, IsGoLine)
        IN  /\ Len(g) = 1
            /\ w[Len(w)] = g[1]
            /\ \/ depth[cur] # <<>> /\ g[1] = s_go_depth \o IntStr(depth[cur][1])
               \/ movetime[cur] # <<>> /\ g[1] = s_go_movetime \o IntStr(movetime[cur][1])

\* the lines read from session e after the last line written to it, stripped
SearchReads(e) ==
    LET t == io[e]
        W == {j \in 1..Len(t) : IsWrite(t, j)}
        last == IF W = {} THEN 0 ELSE CHOOSE j \in W : \A k \in W : j >= k
    IN  [i \in 1..(Len(t) - last) |-> Strip(t[last + i][2])]

\* the places of the words 'score <tag> <integer>' in a line
ScoreWords(info) ==
    LET words == Split(info)
    IN  {i \in 1..(Len(words) - 2) :
            words[i] = s_score /\ words[i + 1] \in {s_cp, s_mate} /\ IsInt(words[i + 2])}

\* the tag and the integer of the first 'score <tag> <integer>' of a line
FirstScore(info) ==
    LET words == Split(info)
        i == CHOOSE k \in ScoreWords(info) : \A j \in ScoreWords(info) : k <= j
    IN  [tag |-> words[i + 1], v |-> IntOf(words[i + 2])]

\* the score a line stands for: centipawns as they are, mate in V as
\* 32768 - V for V > 0 and V - 32768 for V < 0
Equity(tag, V) == IF tag = s_cp THEN V ELSE IF V > 0 THEN 32768 - V ELSE V - 32768

\* bestmove has returned its dictionary
BestmoveReturned ==
    /\ retval.t = "dict"
    /\ \/ pc = "api_done" /\ call = "bestmove"
       \/ pc = "mv_decide"

\* C12: when bestmove has returned, the line it read last is the first
\* 'bestmove' line after its 'go'; if that line is 'bestmove M ponder P', the
\* result has move M, ponder P, as info the last line read before it that
\* contains 'score' ('' if none), and as score_cp the score of that line
\* (None if it has none).
C12_BestmoveResult ==
    BestmoveReturned =>
        LET r == SearchReads(cur)
            n == Len(r)
            words == Split(r[n])
            scored == {i \in 1..(n - 1) : Contains(r[i], s_score)}
            info == IF scored = {} THEN <<>>
                    ELSE r[CHOOSE i \in scored : \A j \in scored : i >= j]
        IN  /\ n >= 1
            /\ words[1] = s_bestmove
            /\ \A i \in 1..(n - 1) : Split(r[i])[1] # s_bestmove
            /\ (Len(words) = 4 /\ words[3] = Strip(s_ponder_))
                => /\ retval.move = words[2]
                   /\ retval.ponder = words[4]
                   /\ retval.info = info
                   /\ ScoreWords(info) = {} => retval.score_cp = [t |-> "none"]
                   /\ (ScoreWords(info) # {} /\ FirstScore(info) # [tag |-> s_mate, v |-> 0])
                        => retval.score_cp
                             = IntV(Equity(FirstScore(info).tag, FirstScore(info).v))

\* bestmove has returned e2e4, e7e5 and 34 after the lines 'info ... score cp
\* 34 ...', 'info currmove ...' and 'bestmove e2e4 ponder e7e5'
C12_Witness ==
    /\ pc = "api_done"
    /\ call = "bestmove"
    /\ retval.t = "dict"
    /\ retval.move = m_e2e4
    /\ retval.ponder = m_e7e5
    /\ retval.info = l_info_cp34
    /\ retval.score_cp = IntV(34)
    /\ Len(SearchReads(cur)) >= 3
    /\ SearchReads(cur)[Len(SearchReads(cur)) - 1] = l_currmove

\* lines without 'score cp' or 'score mate'
NoScoreLines == {<<>>, l_currmove, l_info_string, l_uciok, BestLine(m_e2e4, m_e7e5)}

IsMateZero(line) ==
    \/ line = l_info_mate0
    \/ \E D \in InfoDepths, P \in InfoMultipvs, mid \in InfoMids, pv \in InfoPvs :
         line = InfoLine(D, D + 2, P, s_mate, 0, 1000, mid, 12, pv)

\* C14: for a line with 'score mate 0', score_cp_from_info returns 0, and a
\* record returned by parse_info has the score 0.
C14_MateZeroUnmapped ==
    (pc = "fn_done" /\ IsMateZero(text))
        => /\ call = "score_cp_from_info" => retval = IntV(0)
           /\ (call = "parse_info" /\ retval.t = "list") => retval.score = 0

\* C15: parse_info raises nothing; for a line of the documented shape it
\* returns a record with the depth, seldepth, multipv, nodes and time of the
\* line, the mapped score, and all the moves after 'pv' in order; for a line
\* that lacks a token of the shape it returns None.
C15_ParseInfoRoundTrip ==
    /\ call = "parse_info" => pc # "raised"
    /\ (pc = "fn_done" /\ call = "parse_info")
        => /\ \A D \in InfoDepths, P \in InfoMultipvs, tag \in InfoTags, V \in InfoScores,
                 mid \in InfoMids, pv \in InfoPvs :
                 text = InfoLine(D, D + 2, P, tag, V, 1000, mid, 12, pv)
                    => /\ retval.t = "list"
                       /\ retval.depth = D
                       /\ retval.seldepth = D + 2
                       /\ retval.multipv = P
                       /\ ~(tag = s_mate /\ V = 0) => retval.score = Equity(tag, V)
                       /\ retval.nodes = 1000
                       /\ retval.comptime = 12
                       /\ Split(retval.move_one) = pv
           /\ text \in OtherLines => retval = [t |-> "none"]

\* C16: a setfen on a running process is never left waiting for a line that
\* will not come and raises nothing; when it has returned it has written
\* the position line and then 'isready', has read 'readyok', and on a binary
\* that prints the evaluation line it has returned its three integers.
C16_SetfenSynchronises ==
    (call = "setfen" /\ alive[cur])
        => /\ ~Starved
           /\ pc # "raised"
           /\ pc = "api_done"
                => /\ Writes(cur) = <<FenCmd(f_startfen), s_isready>>
                   /\ SyncCompleted(io[cur], 1)
                   /\ args[cur].build.evalOnFen => retval = ListV(<<12, -12, 3>>)

\* C17: once readline has returned '' at the end of the stream of a process
\* that exited, the call is not in the read loop of isready, bestmove or
\* go_infos any more.
C17_EndOfFileEndsTheWait == eof => pc \notin {"ir_read", "bm_read", "gi_read"}

\* a 'position' or 'go' command line
IsPositionOrGo(c) == IsPrefix(SplitWs(s_position_fen)[1], c) \/ IsGoLine(c)

\* session e was sent 'ucinewgame', then 'isready', and 'readyok' was read
NewgameSynced(e) == Writes(e) = <<s_ucinewgame, s_isready>> /\ SyncCompleted(io[e], 1)

\* C18: the constructor of Match binds the two names, one to white and the
\* other to black; it writes no 'position' and no 'go'; it writes to the
\* black session only after the round trip of the white one; when it returns,
\* each session was sent 'ucinewgame' and 'isready' and has answered
\* 'readyok'; and move() and run(), which write the positions, start after it.
C18_MatchStartsWithNewGames ==
    /\ call \in {"Match", "move", "run"} => (white # black /\ {white, black} = Engines)
    /\ call = "Match"
        => /\ \A e \in Engines : \A i \in 1..Len(io[e]) :
                 IsWrite(io[e], i) => ~IsPositionOrGo(io[e][i][2])
           /\ io[black] # <<>> => NewgameSynced(white)
           /\ pc = "m_idle" => \A e \in Engines : NewgameSynced(e)

\* the Match is constructed with the second key as white
C18_Witness ==
    /\ pc = "m_idle"
    /\ call = "Match"
    /\ white = EngineKeys[2]
    /\ black = EngineKeys[1]
    /\ NewgameSynced(white)
    /\ NewgameSynced(black)

\* the value of a 'setoption name <name> value <value>' line
ValueOf(cmd) == SubSeq(cmd, Find(cmd, s_value) + Len(s_value) + 1, Len(cmd))

\* the value given for key k in the items d
Lookup(d, k) == d[CHOOSE i \in 1..Len(d) : d[i][1] = k][2]

\* C19: when the constructor of a session in random-contempt mode is about
\* to return, the values it sent for 'Contempt' and 'Contempt Factor' (not
\* overridden by the caller) are integers within rand_min..rand_max, and
\* every other option of the table was sent once, with the caller's value if
\* given and the default otherwise.
C19_RandomContemptInRange ==
    (pc = "i_loop" /\ todo = <<>> /\ args[cur].rand)
        => LET a == args[cur]
               w == SelectSeq(Writes(cur), LAMBDA c : IsPrefix(s_setoption_name, c)
                                                       /\ OptionOf(c) # o_Ponder)
           IN  /\ {OptionOf(w[i]) : i \in 1..Len(w)} = Keys(base_param) \cup Keys(a.param)
               /\ Len(w) = Cardinality(Keys(base_param) \cup Keys(a.param))
               /\ \A i \in 1..Len(w) :
                    LET name == OptionOf(w[i])
                        val == ValueOf(w[i])
                    IN  IF name \in Keys(a.param) THEN val = Str(Lookup(a.param, name))
                        ELSE IF name \in {o_Contempt, o_Contempt_Factor}
                        THEN IsInt(val) /\ IntOf(val) \in a.rand_min..a.rand_max
                        ELSE val = Str(Lookup(base_param, name))

\* the process of session e prints only in reply to commands
RepliesOnly(e) == ~args[e].build.chatty

IsIsreadyWrite(t, j) == t[j] = <<"w", s_isready>>

IsGoWrite(t, j) == IsWrite(t, j) /\ IsGoLine(t[j][2])

IsBestmoveRead(t, j) == t[j][1] = "r" /\ Split(Strip(t[j][2]))[1] = s_bestmove

\* the requests written and the replies read among the first i events of t
Requests(t, i) == Cardinality({j \in 1..i : IsIsreadyWrite(t, j) \/ IsGoWrite(t, j)})

Replies(t, i) == Cardinality({j \in 1..i : IsReadyokRead(t, j) \/ IsBestmoveRead(t, j)})

IsreadyWrites(t, i) == Cardinality({j \in 1..i : IsIsreadyWrite(t, j)})

ReadyokReads(t, i) == Cardinality({j \in 1..i : IsReadyokRead(t, j)})

GoWrites(t, i) == Cardinality({j \in 1..i : IsGoWrite(t, j)})

BestmoveReads(t, i) == Cardinality({j \in 1..i : IsBestmoveRead(t, j)})

\* a call of the list has returned to the caller, or a constructor has
Completed ==
    \/ pc \in {"boot", "idle", "m_idle", "mv_done", "run_done"}
    \/ pc = "api_done" /\ call \in {"newgame", "setoption", "setposition", "bestmove", "go_infos"}

\* more requests were written to session e in the current call than replies read
Unanswered(e) == Requests(io[e], Len(io[e])) > Replies(io[e], Len(io[e]))

\* C20: for a session whose process prints only in reply to commands, the
\* pipes hold nothing when a constructor or a call has returned, and each
\* 'readyok' and each 'bestmove' line read answers an 'isready' or a 'go'
\* the same call wrote before; in a Match of two such sessions at most one
\* session has a request without its reply.
C20_NoStaleReplies ==
    /\ \A e \in Engines : RepliesOnly(e) =>
          /\ (Completed /\ e \in sessions) => (out[e] = <<>> /\ inq[e] = <<>>)
          /\ \A i \in 1..Len(io[e]) :
               /\ IsReadyokRead(io[e], i)
                    => ReadyokReads(io[e], i) <= IsreadyWrites(io[e], i)
               /\ IsBestmoveRead(io[e], i)
                    => BestmoveReads(io[e], i) <= GoWrites(io[e], i)
    /\ (call \in {"Match", "move", "run"} /\ \A e \in Engines : RepliesOnly(e))
        => Cardinality({e \in Engines : Unanswered(e)}) <= 1

\* three plies of a run() between two such sessions are played, and the
\* pipes of both are empty
C20_Witness ==
    /\ call = "run"
    /\ pc = "mv_done"
    /\ Len(moves) = 3
    /\ \A e \in Engines : RepliesOnly(e) /\ out[e] = <<>> /\ inq[e] = <<>>
    /\ Len(Reads(active)) >= 2

TypeOK == pc \in {"boot", "i_base", "i_loop", "so_chk", "ir_put", "ir_read", "sf_read",
                  "sf_ret", "bm_read", "idle", "api_done", "mi_black", "mi_end", "m_idle",
                  "mv_bm", "mv_decide", "mv_done", "run_done", "raised", "gi_read", "fn_idle",
                  "fn_done"}
=============================================================================
